---- MODULE Spec2Model ----
(***************************************************************************)
(* Model of iris/tensorflow/estimator/trainer/task.py: the command-line    *)
(* training driver.  The process parses its arguments (get_args), sets up  *)
(* logging (_setup_logging), derives a device-filter policy from TF_CONFIG *)
(* (_get_session_config_from_env_var), assembles the run configuration,    *)
(* the training and the evaluation specifications (train_and_evaluate) and *)
(* hands them to the estimator framework.                                  *)
(***************************************************************************)
EXTENDS Integers, Sequences, FiniteSets, TLC

VARIABLES
  pc,             \* position of the process in the __main__ block
  argv,           \* sys.argv[1:], as a sequence of option occurrences
  args,           \* result of get_args(): the argparse Namespace, or None
  hparams,        \* hparam.HParams(**args.__dict__), or None
  exit_code,      \* <<>> while the process runs, <<code>> once it has exited
  root_level,     \* level of logging.getLogger()
  root_handlers,  \* handlers of logging.getLogger()
  tf_handlers,    \* handlers of logging.getLogger('tensorflow')
  environ,        \* the entries of os.environ the program writes
  stdout,         \* lines written to sys.stdout
  stderr,         \* lines written to sys.stderr
  tf_config_env,  \* what os.environ.get('TF_CONFIG') held when it was read
  run_config,     \* tf.estimator.RunConfig built at lines 130-134, or None
  train_spec,     \* tf.estimator.TrainSpec built at lines 137-142, or None
  eval_spec,      \* tf.estimator.EvalSpec built at lines 145-156, or None
  estimator,      \* model.build_estimator(...) of lines 161-166, or None
  external_calls, \* number of calls of tf.estimator.train_and_evaluate
  trace,          \* the steps the process has executed, in order
  setup_calls,    \* number of calls of _setup_logging
  log_calls       \* number of messages logged after construction

vars == <<pc, argv, args, hparams, exit_code, root_level, root_handlers,
          tf_handlers, environ, stdout, stderr, tf_config_env, run_config,
          train_spec, eval_spec, estimator, external_calls, trace,
          setup_calls, log_calls>>

None == [kind |-> "None"]

-----------------------------------------------------------------------------
(* Bounds of the model.                                                    *)

MaxArgs == 4

MaxSetupCalls == 3

MaxLogCalls == 4

-----------------------------------------------------------------------------
(* Text conversions: int(), float() and the %d conversion of Python.       *)

Digits == <<"0", "1", "2", "3", "4", "5", "6", "7", "8", "9">>

IsDigit(c) == \E d \in 1..10 : Digits[d] = c

DigitValue(c) == (CHOOSE d \in 1..10 : Digits[d] = c) - 1

CharAt(s, i) == SubSeq(s, i, i)

AllDigits(s) == Len(s) > 0 /\ \A i \in 1..Len(s) : IsDigit(CharAt(s, i))

RECURSIVE DigitsValue(_)
DigitsValue(s) ==
  IF Len(s) = 0 THEN 0
  ELSE 10 * DigitsValue(SubSeq(s, 1, Len(s) - 1)) + DigitValue(CharAt(s, Len(s)))

HasSign(s) == Len(s) > 0 /\ CharAt(s, 1) \in {"+", "-"}

Unsigned(s) == IF HasSign(s) THEN SubSeq(s, 2, Len(s)) ELSE s

Signed(s, n) == IF HasSign(s) /\ CharAt(s, 1) = "-" THEN 0 - n ELSE n

\* int(s): an optional sign and at least one decimal digit, else ValueError.
ParseInt(s) ==
  IF AllDigits(Unsigned(s))
    THEN [ok |-> TRUE, v |-> Signed(s, DigitsValue(Unsigned(s)))]
    ELSE [ok |-> FALSE]

RECURSIVE Pow10(_)
Pow10(k) == IF k = 0 THEN 1 ELSE 10 * Pow10(k - 1)

RECURSIVE GCD(_, _)
GCD(a, b) == IF b = 0 THEN a ELSE GCD(b, a % b)

\* A float as the reduced fraction n/d it denotes.
Fraction(n, d) ==
  LET a == IF n < 0 THEN 0 - n ELSE n
      g == GCD(a, d)
  IN [n |-> n \div g, d |-> d \div g]

DotAt(s) == {i \in 1..Len(s) : CharAt(s, i) = "."}

\* float(s): an optional sign, digits, optionally a point and more digits,
\* with at least one digit overall; anything else is a ValueError.
ParseFloat(s) ==
  LET u == Unsigned(s)
      dots == DotAt(u)
  IN IF dots = {} THEN
       IF AllDigits(u)
         THEN [ok |-> TRUE, v |-> Fraction(Signed(s, DigitsValue(u)), 1)]
         ELSE [ok |-> FALSE]
     ELSE
       LET p == CHOOSE i \in dots : TRUE
           ip == SubSeq(u, 1, p - 1)
           fp == SubSeq(u, p + 1, Len(u))
       IN IF /\ Cardinality(dots) = 1
             /\ Len(ip) + Len(fp) > 0
             /\ \A i \in 1..Len(ip) : IsDigit(CharAt(ip, i))
             /\ \A i \in 1..Len(fp) : IsDigit(CharAt(fp, i))
            THEN [ok |-> TRUE,
                  v |-> Fraction(Signed(s, DigitsValue(ip) * Pow10(Len(fp))
                                           + DigitsValue(fp)),
                                 Pow10(Len(fp)))]
            ELSE [ok |-> FALSE]

RECURSIVE NatToStr(_)
NatToStr(n) ==
  IF n < 10 THEN Digits[n + 1]
  ELSE NatToStr(n \div 10) \o Digits[(n % 10) + 1]

\* '%d' % n for an integer n.
FormatD(n) == IF n < 0 THEN "-" \o NatToStr(0 - n) ELSE NatToStr(n)

-----------------------------------------------------------------------------
(* get_args: the argument parser of lines 33-86.                           *)

\* Defaults of the optional flags.
DefaultTrainSteps == 400

DefaultEvalSteps == 100

DefaultNumEpochs == 200

DefaultLearningRate == ParseFloat("0.01").v

DefaultTrainBatchSize == 32

DefaultEvalBatchSize == 32

\* The options the parser registers: destination, number of arguments
\* ("+" for nargs='+', "1" for a single argument), conversion, required.
Options ==
  [o \in {"--train-files", "--eval-files", "--job-dir", "--train-steps",
          "--eval-steps", "--num-epochs", "--learning-rate",
          "--train-batch-size", "--eval-batch-size"} |->
    CASE o = "--train-files" ->
           [dest |-> "train_files", nargs |-> "+", type |-> "str", required |-> TRUE]
      [] o = "--eval-files" ->
           [dest |-> "eval_files", nargs |-> "+", type |-> "str", required |-> TRUE]
      [] o = "--job-dir" ->
           [dest |-> "job_dir", nargs |-> "1", type |-> "str", required |-> TRUE]
      [] o = "--train-steps" ->
           [dest |-> "train_steps", nargs |-> "1", type |-> "int", required |-> FALSE]
      [] o = "--eval-steps" ->
           [dest |-> "eval_steps", nargs |-> "1", type |-> "int", required |-> FALSE]
      [] o = "--num-epochs" ->
           [dest |-> "num_epochs", nargs |-> "1", type |-> "int", required |-> FALSE]
      [] o = "--learning-rate" ->
           [dest |-> "learning_rate", nargs |-> "1", type |-> "float", required |-> FALSE]
      [] o = "--train-batch-size" ->
           [dest |-> "train_batch_size", nargs |-> "1", type |-> "int", required |-> FALSE]
      [] o = "--eval-batch-size" ->
           [dest |-> "eval_batch_size", nargs |-> "1", type |-> "int", required |-> FALSE]]

\* The flag ArgumentParser() adds by itself (add_help defaults to True).
HelpFlags == {"-h", "--help"}

\* Variant: --job-dir registered without required=True.
RequiredDestsWithoutJobDir == {"train_files", "eval_files"}

RequiredDests == {Options[o].dest : o \in {p \in DOMAIN Options : Options[p].required}}

\* Variant: --num-epochs registered with the default of --train-steps.
DefaultNamespaceWrongEpochs ==
  [train_steps |-> DefaultTrainSteps,
   eval_steps |-> DefaultEvalSteps,
   num_epochs |-> DefaultTrainSteps,
   learning_rate |-> DefaultLearningRate,
   train_batch_size |-> DefaultTrainBatchSize,
   eval_batch_size |-> DefaultEvalBatchSize]

\* The namespace before any argument is read: the defaults of the optional
\* flags.  A destination still None is a destination not in the domain.
DefaultNamespace ==
  [train_steps |-> DefaultTrainSteps,
   eval_steps |-> DefaultEvalSteps,
   num_epochs |-> DefaultNumEpochs,
   learning_rate |-> DefaultLearningRate,
   train_batch_size |-> DefaultTrainBatchSize,
   eval_batch_size |-> DefaultEvalBatchSize]

\* Store v under destination d, replacing an earlier value.
SetAttr(ns, d, v) == [k \in DOMAIN ns \cup {d} |-> IF k = d THEN v ELSE ns[k]]

\* The type conversion argparse applies to one argument string.
Convert(type, s) ==
  CASE type = "int" -> ParseInt(s)
    [] type = "float" -> ParseFloat(s)
    [] OTHER -> [ok |-> TRUE, v |-> s]

SystemExit(code) == [kind |-> "SystemExit", code |-> code]

\* parser.parse_args() on the occurrences i..Len(av) of the command line,
\* with namespace ns and `extras` recording an unrecognized argument.
\* Options are consumed in order; -h exits with 0 where it stands, a
\* missing or ill-typed argument exits with 2 where it stands, and the
\* required options and the unrecognized arguments are checked at the end.
RECURSIVE ParseFrom(_, _, _, _)
ParseFrom(av, i, ns, extras) ==
  IF i > Len(av) THEN
    IF ~(RequiredDests \subseteq DOMAIN ns) \/ extras
      THEN SystemExit(2)
      ELSE [kind |-> "Namespace", ns |-> ns]
  ELSE
    LET it == av[i] IN
    IF it.opt \in HelpFlags THEN SystemExit(0)
    ELSE IF it.opt \notin DOMAIN Options THEN ParseFrom(av, i + 1, ns, TRUE)
    ELSE
      LET o == Options[it.opt] IN
      IF Len(it.vals) = 0 THEN SystemExit(2)
      ELSE IF o.nargs = "+" THEN ParseFrom(av, i + 1, SetAttr(ns, o.dest, it.vals), extras)
      ELSE
        LET c == Convert(o.type, it.vals[1]) IN
        IF ~c.ok THEN SystemExit(2)
        ELSE ParseFrom(av, i + 1, SetAttr(ns, o.dest, c.v), extras \/ Len(it.vals) > 1)

ParseArgs(av) == ParseFrom(av, 1, DefaultNamespace, FALSE)

\* The option occurrences a command line is drawn from.
Item(o, vs) == [opt |-> o, vals |-> vs]

Items ==
  { Item("--train-files", <<"a.csv">>),
    Item("--train-files", <<>>),
    Item("--eval-files", <<"b.csv">>),
    Item("--job-dir", <<"/tmp/out">>),
    Item("--train-steps", <<"7">>),
    Item("--train-steps", <<"abc">>),
    Item("--eval-steps", <<"8">>),
    Item("--num-epochs", <<"5">>),
    Item("--learning-rate", <<"0.5">>),
    Item("--train-batch-size", <<"16">>),
    Item("--eval-batch-size", <<"64">>),
    Item("--help", <<>>) }

RECURSIVE SeqsUpTo(_, _)
SeqsUpTo(S, n) ==
  IF n = 0 THEN {<<>>}
  ELSE LET shorter == SeqsUpTo(S, n - 1)
       IN shorter \cup {Append(q, x) : q \in {r \in shorter : Len(r) = n - 1}, x \in S}

ArgvSet == SeqsUpTo(Items, MaxArgs)

-----------------------------------------------------------------------------
(* _setup_logging, lines 89-105, and the logging module it drives.         *)

NOTSET == 0

INFO == 20

WARNING == 30

\* logging.StreamHandler(stream) with setLevel(level); id tells two handler
\* objects of the same stream and level apart.
StreamHandler(id, stream, level) == [id |-> id, stream |-> stream, level |-> level]

\* The handler the framework installs on its own logger.
TFHandler == StreamHandler(0, "stderr", NOTSET)

\* Lines 98-99: while tf_logger.handlers: removeHandler(handlers[0]).
RECURSIVE RemoveHandlers(_)
RemoveHandlers(hs) == IF hs = <<>> THEN hs ELSE RemoveHandlers(Tail(hs))

\* Logger.addHandler: append unless this very handler is already there.
AddHandler(hs, h) ==
  IF \E i \in 1..Len(hs) : hs[i] = h THEN hs ELSE Append(hs, h)

\* Lines 101-103: a new stdout handler at INFO is added to the root logger,
\* whose handlers are otherwise left as they are.
RootHandlersAfterSetup(hs, id) == AddHandler(hs, StreamHandler(id, "stdout", INFO))

\* The whole of _setup_logging.
SetupLoggingEffect ==
  /\ root_level' = INFO
  /\ tf_handlers' = RemoveHandlers(tf_handlers)
  /\ root_handlers' = RootHandlersAfterSetup(root_handlers, setup_calls + 1)
  /\ environ' = SetAttr(environ, "TF_CPP_MIN_LOG_LEVEL", "3")
  /\ setup_calls' = setup_calls + 1

\* The handlers a record logged on `logger` is offered to: the logger's own
\* and, by propagation, the root logger's.
HandlersOf(logger) ==
  IF logger = "tensorflow" THEN tf_handlers \o root_handlers ELSE root_handlers

\* The handlers that emit an INFO record logged on `logger`: none when the
\* effective level (the root's, the 'tensorflow' logger's being NOTSET) is
\* above INFO, else the handlers whose own level admits INFO.
Emitting(logger) ==
  IF root_level > INFO THEN <<>>
  ELSE SelectSeq(HandlersOf(logger), LAMBDA h : h.level <= INFO)

LogLine(n) == "message " \o NatToStr(n)

LinesTo(stream, hs, line) ==
  [i \in 1..Len(SelectSeq(hs, LAMBDA h : h.stream = stream)) |-> line]

\* logging.getLogger(logger).info(...): one line per emitting handler.
LogInfo(logger) ==
  LET line == LogLine(log_calls + 1)
      hs == Emitting(logger)
  IN /\ stdout' = stdout \o LinesTo("stdout", hs, line)
     /\ stderr' = stderr \o LinesTo("stderr", hs, line)
     /\ log_calls' = log_calls + 1

-----------------------------------------------------------------------------
(* _get_session_config_from_env_var, lines 108-123.                        *)

\* JSON documents.  An object is a function from its keys to documents.
JNull == [kind |-> "null"]

JInt(n) == [kind |-> "int", v |-> n]

JStr(s) == [kind |-> "str", v |-> s]

JBool(b) == [kind |-> "bool", v |-> b]

JArray(a) == [kind |-> "array", v |-> a]

JObject(f) == [kind |-> "object", v |-> f]

EmptyObject == JObject([k \in {} |-> JNull])

\* A text that is not JSON.
Malformed == [kind |-> "malformed"]

\* The environment: TF_CONFIG unset, or set to a text.  A text is written
\* as the document it spells, or Malformed when it spells none.
Unset == [kind |-> "unset"]

Text(doc) == [kind |-> "text", doc |-> doc]

\* os.environ.get('TF_CONFIG', '{}')
EnvironGet(env) == IF env = Unset THEN Text(EmptyObject) ELSE env

Return(v) == [kind |-> "return", v |-> v]

Raise(e) == [kind |-> "raise", exc |-> e]

\* Variant: a text that does not parse is read as the empty object.
JsonLoadsWithFallback(text) ==
  IF text.doc = Malformed THEN Return([kind |-> "object", v |-> [k \in {} |-> JNull]])
  ELSE Return(text.doc)

\* json.loads(text)
JsonLoads(text) ==
  IF text.doc = Malformed THEN Raise("ValueError") ELSE Return(text.doc)

\* bool(j) of a parsed document.
Truthy(j) ==
  CASE j.kind = "null" -> FALSE
    [] j.kind = "int" -> j.v # 0
    [] j.kind = "bool" -> j.v
    [] j.kind = "str" -> Len(j.v) > 0
    [] j.kind = "array" -> Len(j.v) > 0
    [] j.kind = "object" -> DOMAIN j.v # {}

IsSubstring(k, s) ==
  \E i \in 1..(Len(s) - Len(k) + 1) : SubSeq(s, i, i + Len(k) - 1) = k

\* `key in j`: TypeError for a document that is no container.
Contains(key, j) ==
  CASE j.kind = "object" -> Return(key \in DOMAIN j.v)
    [] j.kind = "array" -> Return(\E i \in 1..Len(j.v) : j.v[i] = JStr(key))
    [] j.kind = "str" -> Return(IsSubstring(key, j.v))
    [] OTHER -> Raise("TypeError")

\* '%d' % j
PercentD(j) ==
  CASE j.kind = "int" -> Return(FormatD(j.v))
    [] j.kind = "bool" -> Return(FormatD(IF j.v THEN 1 ELSE 0))
    [] OTHER -> Raise("TypeError")

ConfigProto(filters) == [kind |-> "ConfigProto", device_filters |-> filters]

\* Variant: the master is also let through to the workers.
MasterFiltersWithWorkers == <<"/job:ps", "/job:master", "/job:worker">>

\* Variant: the worker's filter without its task index.
WorkerFiltersNoIndex(index) == <<"/job:ps", "/job:worker">>

\* Lines 116 and 119-122.
MasterFilters == <<"/job:ps", "/job:master">>

WorkerFilters(index) == <<"/job:ps", "/job:worker/task:" \o index>>

\* Variant: every type but "worker" is treated as the master.
FiltersForTaskElseMaster(task) ==
  IF task["type"] = JStr("worker") THEN
    LET d == PercentD(task["index"]) IN
    IF d.kind = "raise" THEN d
    ELSE Return(ConfigProto(<<"/job:ps", "/job:worker/task:" \o d.v>>))
  ELSE Return(ConfigProto(<<"/job:ps", "/job:master">>))

\* Lines 115-123, for a task that has a type and an index.
FiltersForTask(task) ==
  IF task["type"] = JStr("master") THEN Return(ConfigProto(MasterFilters))
  ELSE IF task["type"] = JStr("worker") THEN
    LET d == PercentD(task["index"]) IN
    IF d.kind = "raise" THEN d ELSE Return(ConfigProto(WorkerFilters(d.v)))
  ELSE Return(None)

\* Variant: the index is looked for in the worker branch only.
SessionConfigOfIndexUnchecked(tf_config) ==
  IF tf_config.kind # "object" \/ "task" \notin DOMAIN tf_config.v THEN Return(None)
  ELSE
    LET task == tf_config.v["task"] IN
    IF task.kind # "object" \/ "type" \notin DOMAIN task.v THEN Return(None)
    ELSE IF task.v["type"] = JStr("master")
      THEN Return(ConfigProto(<<"/job:ps", "/job:master">>))
    ELSE IF task.v["type"] = JStr("worker") /\ "index" \in DOMAIN task.v
                /\ task.v["index"].kind = "int"
      THEN Return(ConfigProto(<<"/job:ps", "/job:worker/task:" \o FormatD(task.v["index"].v)>>))
    ELSE Return(None)

\* Lines 112-123 on the parsed document, the conditions evaluated left to
\* right as `and` evaluates them.
SessionConfigOf(tf_config) ==
  IF ~Truthy(tf_config) THEN Return(None)
  ELSE
    LET hasTask == Contains("task", tf_config) IN
    IF hasTask.kind = "raise" THEN hasTask
    ELSE IF ~hasTask.v THEN Return(None)
    ELSE IF tf_config.kind # "object" THEN Raise("TypeError")
    ELSE
      LET task == tf_config.v["task"]
          hasType == Contains("type", task)
      IN
      IF hasType.kind = "raise" THEN hasType
      ELSE IF ~hasType.v THEN Return(None)
      ELSE
        LET hasIndex == Contains("index", task) IN
        IF ~hasIndex.v THEN Return(None)
        ELSE IF task.kind # "object" THEN Raise("TypeError")
        ELSE FiltersForTask(task.v)

\* The whole function, on what the environment holds.
GetSessionConfigFromEnvVar(env) ==
  LET loaded == JsonLoads(EnvironGet(env)) IN
  IF loaded.kind = "raise" THEN loaded ELSE SessionConfigOf(loaded.v)

\* The cluster specifications the environment is drawn from.
TaskTypes == {JStr("master"), JStr("worker"), JStr("chief"), JStr("ps"),
              JStr("evaluator")}

TaskIndexes == {JInt(-1), JInt(0), JInt(3), JInt(7), JInt(12), JStr("3"),
                JBool(TRUE), JNull}

Field(k, S) == {[x \in {} |-> JNull]} \cup {[x \in {k} |-> v] : v \in S}

Merge(f, g) == [k \in DOMAIN f \cup DOMAIN g |-> IF k \in DOMAIN f THEN f[k] ELSE g[k]]

Tasks == {JObject(Merge(t, i)) : t \in Field("type", TaskTypes),
                                 i \in Field("index", TaskIndexes)}

\* An object with a "task" entry, an object with another entry only, and
\* documents that are no object or no JSON at all.
Documents ==
  {Malformed, JNull, JArray(<<>>), JInt(1), EmptyObject}
    \cup {JObject([k \in {"cluster"} |-> EmptyObject])}
    \cup {JObject([k \in {"task"} |-> t]) : t \in Tasks \cup {JNull}}
    \cup {JObject([k \in {"task", "cluster"} |-> IF k = "task" THEN t ELSE EmptyObject]) :
             t \in {x \in Tasks : DOMAIN x.v = {"type", "index"} /\ x.v["index"] = JInt(3)}}

Environments == {Unset} \cup {Text(d) : d \in Documents}

-----------------------------------------------------------------------------
(* train_and_evaluate, lines 126-169, and the __main__ block, 172-177.     *)

\* hparam.HParams(**args.__dict__): one hyperparameter per attribute.
HParams(ns) == [k \in DOMAIN ns |-> ns[k]]

\* Lines 130-134.
RunConfig(session_config, hp) ==
  [session_config |-> session_config,
   save_checkpoints_steps |-> 100,
   save_summary_steps |-> 100,
   model_dir |-> hp.job_dir]

\* Lines 137-140: the arguments train_input_fn passes to model.input_fn.
TrainInputArgs(hp) ==
  [filename |-> hp.train_files, batch_size |-> hp.train_batch_size, shuffle |-> TRUE]

\* Lines 141-142.
TrainSpec(hp) == [input_fn |-> TrainInputArgs(hp), max_steps |-> hp.train_steps]

\* Lines 148-151: the arguments eval_input_fn passes to model.input_fn.
EvalInputArgs(hp) ==
  [filename |-> hp.eval_files, batch_size |-> hp.eval_batch_size, shuffle |-> FALSE]

\* Lines 145-146 and 152-156.
EvalSpec(hp) ==
  [input_fn |-> EvalInputArgs(hp),
   steps |-> hp.eval_steps,
   exporters |-> <<[kind |-> "FinalExporter", name |-> "exporter"]>>,
   name |-> "iris-eval"]

\* Lines 161-166: the arguments of model.build_estimator.
BuildEstimator(config, hp) ==
  [config |-> config,
   learning_rate |-> hp.learning_rate,
   hidden_units |-> <<10, 20, 10>>,
   num_classes |-> 3]

Exit(code) ==
  /\ pc' = "exited"
  /\ exit_code' = <<code>>

\* Line 173: args = get_args().  A usage error is written to stderr and
\* ends the process with 2; -h writes the help to stdout and ends it with 0.
GetArgs ==
  /\ pc = "get_args"
  /\ trace' = Append(trace, "get_args")
  /\ LET r == ParseArgs(argv) IN
     IF r.kind = "Namespace"
       THEN /\ args' = r.ns
            /\ pc' = "setup_logging"
            /\ UNCHANGED <<exit_code, stdout, stderr>>
       ELSE /\ Exit(r.code)
            /\ stdout' = IF r.code = 0 THEN Append(stdout, "usage") ELSE stdout
            /\ stderr' = IF r.code = 0 THEN stderr ELSE Append(stderr, "usage")
            /\ UNCHANGED args
  /\ UNCHANGED <<argv, hparams, root_level, root_handlers, tf_handlers, environ,
                 tf_config_env, run_config, train_spec, eval_spec, estimator,
                 external_calls, setup_calls, log_calls>>

\* Line 174: _setup_logging().
SetupLogging ==
  /\ pc = "setup_logging"
  /\ trace' = Append(trace, "setup_logging")
  /\ SetupLoggingEffect
  /\ pc' = "run_config"
  /\ UNCHANGED <<argv, args, hparams, exit_code, stdout, stderr, tf_config_env,
                 run_config, train_spec, eval_spec, estimator, external_calls,
                 log_calls>>

\* Lines 176 and 130-134: the hyperparameters, then the run configuration
\* with the session configuration derived from TF_CONFIG.  An exception of
\* the derivation is not caught: traceback on stderr, exit status 1.
BuildRunConfig(env) ==
  /\ pc = "run_config"
  /\ trace' = Append(trace, "run_config")
  /\ hparams' = HParams(args)
  /\ tf_config_env' = env
  /\ LET r == GetSessionConfigFromEnvVar(env) IN
     IF r.kind = "raise"
       THEN /\ Exit(1)
            /\ stderr' = Append(stderr, r.exc)
            /\ UNCHANGED run_config
       ELSE /\ run_config' = RunConfig(r.v, HParams(args))
            /\ pc' = "assemble"
            /\ UNCHANGED <<exit_code, stderr>>
  /\ UNCHANGED <<argv, args, root_level, root_handlers, tf_handlers, environ,
                 stdout, train_spec, eval_spec, estimator, external_calls,
                 setup_calls, log_calls>>

\* Lines 136-166: the training and evaluation specifications, the printed
\* model directory and the estimator.
AssembleSpecs ==
  /\ pc = "assemble"
  /\ trace' = Append(trace, "assemble")
  /\ train_spec' = TrainSpec(hparams)
  /\ eval_spec' = EvalSpec(hparams)
  /\ stdout' = Append(stdout, "Model dir: " \o run_config.model_dir)
  /\ estimator' = BuildEstimator(run_config, hparams)
  /\ pc' = "delegate"
  /\ UNCHANGED <<argv, args, hparams, exit_code, root_level, root_handlers,
                 tf_handlers, environ, stderr, tf_config_env, run_config,
                 external_calls, setup_calls, log_calls>>

\* Variant: a failed external call is made again.
AfterExternalCallRetrying(raised) ==
  IF raised THEN pc' = "delegate" /\ UNCHANGED exit_code
  ELSE pc' = "exited" /\ exit_code' = <<0>>

\* What follows the call of line 169: a return ends the process with 0, an
\* exception is not caught and ends it with 1.
AfterExternalCall(raised) == Exit(IF raised THEN 1 ELSE 0)

\* Line 169: tf.estimator.train_and_evaluate(estimator, train_spec,
\* eval_spec), which returns or raises.
Delegate(raised) ==
  /\ pc = "delegate"
  /\ trace' = Append(trace, "delegate")
  /\ external_calls' = external_calls + 1
  /\ AfterExternalCall(raised)
  /\ stderr' = IF raised THEN Append(stderr, "Error") ELSE stderr
  /\ UNCHANGED <<argv, args, hparams, root_level, root_handlers, tf_handlers,
                 environ, stdout, tf_config_env, run_config, train_spec,
                 eval_spec, estimator, setup_calls, log_calls>>

\* The state before the first statement executes, given where execution
\* starts, the command line and the handlers of the framework's logger.
InitWith(at, av, tfh) ==
  /\ pc = at
  /\ argv = av
  /\ args = None
  /\ hparams = None
  /\ exit_code = <<>>
  /\ root_level = WARNING
  /\ root_handlers = <<>>
  /\ tf_handlers = tfh
  /\ environ = [k \in {} |-> ""]
  /\ stdout = <<>>
  /\ stderr = <<>>
  /\ tf_config_env = None
  /\ run_config = None
  /\ train_spec = None
  /\ eval_spec = None
  /\ estimator = None
  /\ external_calls = 0
  /\ trace = <<>>
  /\ setup_calls = 0
  /\ log_calls = 0

Init == \E av \in ArgvSet : InitWith("get_args", av, <<TFHandler>>)

Next ==
  \/ GetArgs
  \/ SetupLogging
  \/ \E env \in Environments : BuildRunConfig(env)
  \/ AssembleSpecs
  \/ \E raised \in BOOLEAN : Delegate(raised)

Spec == Init /\ [][Next]_vars

-----------------------------------------------------------------------------
(* The logging functions on their own: _setup_logging called any number of *)
(* times by a program that logs INFO messages in between.                  *)

CallSetupLogging ==
  /\ pc = "logging"
  /\ setup_calls < MaxSetupCalls
  /\ SetupLoggingEffect
  /\ UNCHANGED <<pc, argv, args, hparams, exit_code, stdout, stderr,
                 tf_config_env, run_config, train_spec, eval_spec, estimator,
                 external_calls, trace, log_calls>>

CallLogInfo(logger) ==
  /\ pc = "logging"
  /\ log_calls < MaxLogCalls
  /\ LogInfo(logger)
  /\ UNCHANGED <<pc, argv, args, hparams, exit_code, root_level, root_handlers,
                 tf_handlers, environ, tf_config_env, run_config, train_spec,
                 eval_spec, estimator, external_calls, trace, setup_calls>>

InitLogging == \E tfh \in {<<>>, <<TFHandler>>} : InitWith("logging", <<>>, tfh)

NextLogging ==
  \/ CallSetupLogging
  \/ \E logger \in {"root", "tensorflow"} : CallLogInfo(logger)

SpecLogging == InitLogging /\ [][NextLogging]_vars

-----------------------------------------------------------------------------
(* Properties.                                                             *)

\* The process has read TF_CONFIG (lines 130-131 have run).
PolicyDerived == tf_config_env # None

\* The document TF_CONFIG spelled, when it spelled an object.
IsObjectSpec == tf_config_env.kind = "text" /\ tf_config_env.doc.kind = "object"

HasTaskObject ==
  /\ PolicyDerived
  /\ IsObjectSpec
  /\ "task" \in DOMAIN tf_config_env.doc.v
  /\ tf_config_env.doc.v["task"].kind = "object"

TaskOfSpec == tf_config_env.doc.v["task"].v

\* TF_CONFIG was {"task": {"type": t, "index": N}} for some N.
SpecOfType(t) ==
  /\ HasTaskObject
  /\ DOMAIN TaskOfSpec = {"type", "index"}
  /\ TaskOfSpec["type"] = JStr(t)

Built == run_config # None

FilterSet == {run_config.session_config.device_filters[i] :
                i \in 1..Len(run_config.session_config.device_filters)}

HasFilters == Built /\ run_config.session_config # None

NoRestriction == Built /\ run_config.session_config = None

\* C1 as stated: for a master specification with any index the filter set
\* is exactly {"job:ps", "job:master"}.
C1_AsStated ==
  SpecOfType("master") => HasFilters /\ FilterSet = {"job:ps", "job:master"}

\* C1, amended: for a master specification with any index (integer or not)
\* the filters are exactly "/job:ps" and "/job:master", each with its
\* leading slash, and no others.
C1_MasterFilters ==
  SpecOfType("master") =>
    /\ HasFilters
    /\ FilterSet = {"/job:ps", "/job:master"}
    /\ Len(run_config.session_config.device_filters) = 2

C1_Witness ==
  /\ SpecOfType("master")
  /\ TaskOfSpec["index"] = JNull
  /\ HasFilters

\* The decimal text of the integer indexes the specifications use.
ExpectedIndexText(i) ==
  CASE i = -1 -> "-1" [] i = 0 -> "0" [] i = 3 -> "3" [] i = 7 -> "7" [] i = 12 -> "12"

WorkerWithIntIndex == SpecOfType("worker") /\ TaskOfSpec["index"].kind = "int"

\* C2 as stated: for a worker specification with index i the filter set is
\* exactly {"job:ps", "job:worker/task:<i>"}.
C2_AsStated ==
  WorkerWithIntIndex =>
    /\ HasFilters
    /\ FilterSet = {"job:ps", "job:worker/task:" \o ExpectedIndexText(TaskOfSpec["index"].v)}

\* C2, amended: for a worker specification with an integer index i the
\* filters are exactly "/job:ps" and "/job:worker/task:<i>", <i> in decimal,
\* so that two such specifications yield the same first filter and second
\* filters that differ only after "/job:worker/task:".
C2_WorkerFilters ==
  WorkerWithIntIndex =>
    /\ HasFilters
    /\ run_config.session_config.device_filters =
         <<"/job:ps", "/job:worker/task:" \o ExpectedIndexText(TaskOfSpec["index"].v)>>

C2_Witness ==
  /\ WorkerWithIntIndex
  /\ TaskOfSpec["index"].v = 12
  /\ HasFilters

\* TF_CONFIG was unset, spelled the empty object, an object with no "task"
\* entry, or an object whose task has no "type" or no "index".
SpecLacksTaskFields ==
  /\ PolicyDerived
  /\ \/ tf_config_env = Unset
     \/ /\ IsObjectSpec
        /\ \/ "task" \notin DOMAIN tf_config_env.doc.v
           \/ /\ tf_config_env.doc.v["task"].kind = "object"
              /\ ~({"type", "index"} \subseteq DOMAIN TaskOfSpec)

\* C3: for a specification that is absent, empty, without a task, or whose
\* task lacks its type or its index, the run configuration is built with
\* no restriction (session_config None).
C3_NoRestrictionWhenFieldsMissing == SpecLacksTaskFields => NoRestriction

C3_Witness ==
  /\ HasTaskObject
  /\ DOMAIN TaskOfSpec = {"type"}
  /\ TaskOfSpec["type"] = JStr("master")
  /\ NoRestriction

OtherType ==
  /\ HasTaskObject
  /\ {"type", "index"} \subseteq DOMAIN TaskOfSpec
  /\ TaskOfSpec["type"] \notin {JStr("master"), JStr("worker")}

\* C4: for a specification whose task has a type and an index, the type
\* being neither "master" nor "worker", the run configuration is built
\* with no restriction.
C4_NoRestrictionForOtherTypes == OtherType => NoRestriction

C4_Witness ==
  /\ OtherType
  /\ TaskOfSpec["type"] = JStr("chief")
  /\ TaskOfSpec["index"] = JInt(0)
  /\ NoRestriction

Count(q, x) == Cardinality({i \in 1..Len(q) : q[i] = x})

\* C5: after any number of calls of _setup_logging, a logged message is
\* written to standard output at most once.
C5_NoDuplicateLines ==
  setup_calls >= 1 => \A i \in 1..Len(stdout) : Count(stdout, stdout[i]) = 1

Supplied == {argv[i].opt : i \in 1..Len(argv)}

RequiredFlags == {"--train-files", "--eval-files", "--job-dir"}

MissingRequired == ~(RequiredFlags \subseteq Supplied)

Parsed == pc # "get_args"

NothingRan ==
  /\ pc = "exited"
  /\ args = None
  /\ hparams = None
  /\ setup_calls = 0
  /\ root_handlers = <<>>
  /\ tf_config_env = None
  /\ run_config = None
  /\ external_calls = 0
  /\ trace = <<"get_args">>

\* C6 as stated: with a required flag missing the process ends with a
\* non-zero exit code, without a record and without any later step.
C6_AsStated ==
  (Parsed /\ MissingRequired) => NothingRan /\ exit_code # <<0>>

\* C6, amended: with a required flag missing the process ends in get_args,
\* without a record and without any later step; the exit code is 2, or 0
\* when -h/--help is on the command line.
C6_MissingRequiredExits ==
  (Parsed /\ MissingRequired) =>
    /\ NothingRan
    /\ exit_code \in {<<0>>, <<2>>}
    /\ exit_code = <<0>> => Supplied \cap {"-h", "--help"} # {}

C6_Witness ==
  /\ Parsed
  /\ Supplied = {"--train-files", "--eval-files", "--num-epochs"}
  /\ exit_code = <<2>>

OnlyRequiredSupplied == Supplied = RequiredFlags

Last(o) == argv[CHOOSE i \in 1..Len(argv) :
                  argv[i].opt = o /\ \A j \in (i + 1)..Len(argv) : argv[j].opt # o]

\* The value each optional flag of the command lines stands for.
ExpectedValue(o) ==
  CASE o = "--train-steps" -> 7
    [] o = "--eval-steps" -> 8
    [] o = "--num-epochs" -> 5
    [] o = "--learning-rate" -> [n |-> 1, d |-> 2]
    [] o = "--train-batch-size" -> 16
    [] o = "--eval-batch-size" -> 64

DocumentedDefault(o) ==
  CASE o = "--train-steps" -> 400
    [] o = "--eval-steps" -> 100
    [] o = "--num-epochs" -> 200
    [] o = "--learning-rate" -> [n |-> 1, d |-> 100]
    [] o = "--train-batch-size" -> 32
    [] o = "--eval-batch-size" -> 32

DestOf(o) ==
  CASE o = "--train-steps" -> "train_steps"
    [] o = "--eval-steps" -> "eval_steps"
    [] o = "--num-epochs" -> "num_epochs"
    [] o = "--learning-rate" -> "learning_rate"
    [] o = "--train-batch-size" -> "train_batch_size"
    [] o = "--eval-batch-size" -> "eval_batch_size"

OptionalFlags == {"--train-steps", "--eval-steps", "--num-epochs",
                  "--learning-rate", "--train-batch-size", "--eval-batch-size"}

\* C7: a command line with the three required flags yields a record with
\* the supplied values of the three; every optional flag that is not
\* supplied has its documented default, and one that is supplied has the
\* value supplied.
C7_DefaultsApplied ==
  (Parsed /\ args # None) =>
    /\ DOMAIN args = {"train_files", "eval_files", "job_dir"}
                       \cup {DestOf(o) : o \in OptionalFlags}
    /\ args.train_files = Last("--train-files").vals
    /\ args.eval_files = Last("--eval-files").vals
    /\ args.job_dir = Last("--job-dir").vals[1]
    /\ \A o \in OptionalFlags :
         args[DestOf(o)] = IF o \in Supplied THEN ExpectedValue(o)
                           ELSE DocumentedDefault(o)

C7_Witness ==
  /\ Parsed
  /\ args # None
  /\ OnlyRequiredSupplied
  /\ args.num_epochs = 200
  /\ args.learning_rate = [n |-> 1, d |-> 100]

Steps == <<"get_args", "setup_logging", "run_config", "assemble", "delegate">>

\* C8: the steps run in the order parse, logging, policy and run
\* configuration, specifications, external call: the steps executed are a
\* prefix of that sequence (none twice, none before its predecessor), the
\* external call is made at most once, and once made the process has
\* exited.
C8_LinearSequence ==
  /\ Len(trace) <= Len(Steps)
  /\ trace = SubSeq(Steps, 1, Len(trace))
  /\ external_calls <= 1
  /\ external_calls = 1 => pc = "exited" /\ exit_code \in {<<0>>, <<1>>}
  /\ pc = "exited" <=> exit_code # <<>>

C8_Witness ==
  /\ trace = Steps
  /\ external_calls = 1
  /\ exit_code = <<1>>

\* C9: when TF_CONFIG is malformed JSON the process has exited with a
\* non-zero code, no run configuration exists and the external call has
\* not been made.
C9_MalformedIsFatal ==
  (PolicyDerived /\ tf_config_env = Text(Malformed)) =>
    /\ pc = "exited"
    /\ exit_code = <<1>>
    /\ run_config = None
    /\ train_spec = None
    /\ external_calls = 0

C9_Witness ==
  /\ tf_config_env = Text(Malformed)
  /\ pc = "exited"
  /\ hparams # None

\* C10: the epoch limit of the hyperparameters is handed to the training
\* input function.
C10_EpochLimitHanded ==
  train_spec # None =>
    /\ "num_epochs" \in DOMAIN train_spec.input_fn
    /\ train_spec.input_fn["num_epochs"] = hparams.num_epochs

====
